---- MODULE Spec2Model ----
(***************************************************************************)
(* Model of internal/queue/queue.go: the in-memory job queue with its      *)
(* worker pool, the job store, the pending channel and Shutdown; and of    *)
(* the gRPC handlers of internal/grpc that call it.                        *)
(*                                                                         *)
(* Go's heap is modelled explicitly where the code uses pointers: a Job's  *)
(* StartedAt, CompletedAt and Result fields hold an address (or Nil) and   *)
(* `heap` maps every allocated address to the value stored there.          *)
(***************************************************************************)
EXTENDS Integers, Sequences, FiniteSets, TLC

\* ---------------------------------------------------------------- bounds
MaxJobs == 2            \* number of Enqueue calls explored
MaxWorkers == 2         \* NewQueue(workers, ...) is explored for 1..MaxWorkers
PendingCapacity == 1    \* buffer of pendingQueue; the code builds it with 100
MaxTime == 1            \* the clock runs from 0 to MaxTime
MaxShutdownCalls == 2   \* number of Shutdown calls explored
MaxWrites == 1          \* number of writes a caller makes through returned pointers
IntBits == 11           \* width of Go's int as explored (the builds have 32 or 64)
Int32Bits == 10         \* width of the requests' int32 fields as explored

\* ------------------------------------------------------------- constants
EmptyID == 0            \* the "" that Enqueue returns on rejection

StatusQueued == "queued"
StatusProcessing == "processing"
StatusCompleted == "completed"
StatusFailed == "failed"
Terminal == {StatusCompleted, StatusFailed}

JobIds == 1..MaxJobs
WorkerIds == 1..MaxWorkers   \* worker w runs when w <= workers
Calls == 1..MaxShutdownCalls

\* Go's int: two's complement of IntBits bits; a sum wraps around
MaxInt == 2 ^ (IntBits - 1) - 1
MinInt == -(2 ^ (IntBits - 1))
WrapInt(n) == ((n - MinInt) % (2 ^ IntBits)) + MinInt

\* Go's int32, narrower than int; int32(n) keeps the low bits
MaxInt32 == 2 ^ (Int32Bits - 1) - 1
MinInt32 == -(2 ^ (Int32Bits - 1))
ToInt32(n) == ((n - MinInt32) % (2 ^ Int32Bits)) + MinInt32
\* int(n) of an int32 n
ToInt(n) == WrapInt(n)

\* the page size the handler uses for a request without one, and its cap
DefaultLimit == 50
MaxLimit == 500

\* a nil pointer, and a nil error; a non-nil error is <<text>>
Nil == <<>>
NilErr == <<>>
ErrQueueFull == <<"queue is full">>
ErrTimeout == <<"shutdown timeout exceeded">>

\* the errors a Processor may return: nil, or an error whose Error() text is
\* any string, the empty one included
ProcessorErrors == {NilErr, <<"processing failed">>, <<"">>}
\* whether a Processor returns a result pointer or nil
ProcessorResults == {TRUE, FALSE}

\* the arguments of the calls explored
StatusFilters == {"", StatusCompleted}
Limits == {0, 1, MaxInt}
Offsets == {0, 1, MaxInt}
Dates == {"2026-01-24"}
DeviceIDs == {"test-device"}
\* the fields of the requests explored
ReqDates == Dates \cup {""}
ReqStatuses == {StatusCompleted}
ReqLimits == {-1, 0, 1, MaxLimit, MaxLimit + 1}
ReqOffsets == {-1, 0, 1}

\* addresses: cells the queue's own code (or the Processor) allocated for job
\* j, and cells GetJob allocated for the copy it returns
StoreAddr(j, f) == <<"store", j, f>>
CopyAddr(j, f) == <<"copy", j, f>>

VARIABLES
    jobs,           \* q.jobs: job id -> Job record (pointer fields hold addresses)
    heap,           \* address -> value of the cell
    pendingQueue,   \* q.pendingQueue: the buffered channel, a sequence of job ids
    mu,             \* q.mu: Unlocked, or the goroutine that holds it
    workers,        \* q.workers
    capacity,       \* cap(q.pendingQueue)
    worker,         \* per worker goroutine: pc and the locals of processJob
    cancelled,      \* q.ctx is done
    wg,             \* q.wg counter
    now,            \* the clock read by time.Now()
    sd,             \* per Shutdown call: pc, its waiting goroutine, its timer (and
                    \* whether a worker was running when it fired), its return
    done,           \* the done channels made by Shutdown: channel -> open/closed
    panicked,       \* a goroutine panicked (close of a closed channel)
    enqLog,         \* per created job: what its Enqueue call returned
    procCalls,      \* per job: number of Processor invocations
    received,       \* per job: number of times a worker received it from the channel
    getRet,         \* last return of GetJob
    listRet,        \* last return of ListJobs
    listCall,       \* the ListJobs call the caller last made: its arguments and
                    \* whether it panicked
    writes,         \* number of writes callers made through returned pointers
    statsRet,       \* last return of GetStats
    rpcRet          \* the handler call last made: its request and what it returned

vars == <<jobs, heap, pendingQueue, mu, workers, capacity, worker, cancelled, wg,
          now, sd, done, panicked, enqLog, procCalls, received, getRet, listRet,
          listCall, writes, statsRet, rpcRet>>

queueVars == <<jobs, heap, pendingQueue, mu, enqLog, procCalls, received>>
poolVars == <<workers, capacity, worker, wg>>
shutdownVars == <<cancelled, sd, done, panicked>>
callerVars == <<getRet, listRet, listCall, writes, statsRet, rpcRet>>

IdleWorker == [pc |-> "select", job |-> EmptyID, startTime |-> 0, ctx |-> Nil,
               result |-> Nil, err |-> NilErr]
NoCall == [pc |-> "idle", waiter |-> "none", timer |-> FALSE, ret |-> NilErr,
           running |-> FALSE]
\* GetJob's return: job is <<>> for a nil *Job, else <<the Job it points to>>
NoGet == [job |-> <<>>, err |-> NilErr]

NoListCall == <<>>
NoStats == <<>>
NoRpc == <<>>

\* q.mu when no goroutine holds it
Unlocked == "unlocked"

\* NewQueue: empty store, empty channel of buffer size cap, live context,
\* `workers` goroutines started and counted in wg.
NewQueue(cap) ==
    /\ jobs = <<>>
    /\ heap = <<>>
    /\ pendingQueue = <<>>
    /\ mu = Unlocked
    /\ workers \in 1..MaxWorkers
    /\ capacity = cap
    /\ worker = [w \in 1..workers |-> IdleWorker]
    /\ cancelled = FALSE
    /\ wg = workers
    /\ now = 0
    /\ sd = [c \in Calls |-> NoCall]
    /\ done = <<>>
    /\ panicked = FALSE
    /\ enqLog = <<>>
    /\ procCalls = <<>>
    /\ received = <<>>
    /\ getRet = NoGet
    /\ listRet = <<>>
    /\ listCall = NoListCall
    /\ writes = 0
    /\ statsRet = NoStats
    /\ rpcRet = NoRpc

Init == NewQueue(PendingCapacity)

\* a queue whose channel can hold more than one job
InitDeep == NewQueue(PendingCapacity + 1)

\* time passes
Tick ==
    /\ now < MaxTime
    /\ now' = now + 1
    /\ UNCHANGED <<queueVars, poolVars, shutdownVars, callerVars>>

\* ---------------------------------------------------------------- Enqueue
\* an id generator that hands out the newest job's id again
NewUUIDRepeat == IF jobs = <<>> THEN 1 ELSE Cardinality(DOMAIN jobs)

\* uuid.New(): an id no job has yet
NewUUID == Cardinality(DOMAIN jobs) + 1

\* a send that already refuses at one element below the capacity
CanSendOffByOne(q) == Len(q) + 1 < capacity

\* the non-blocking send `case q.pendingQueue <- job` can proceed
CanSend(q) == Len(q) < capacity

\* a channel that hands out the newest element first
SendFront(q, job) == <<job>> \o q

\* the channel after `q.pendingQueue <- job`: a Go channel is first in, first
\* out
Send(q, job) == Append(q, job)

\* a rejection that puts the job on the channel all the same
NotSentAnyway(q, job) == Append(q, job)

\* the channel after the `default:` case of Enqueue's select: nothing was sent
NotSent(q, job) == q

\* Queue.Enqueue, whoever calls it: under the lock, the record is stored and
\* its pointer sent to the channel, or marked failed when the send cannot
\* proceed
QueueEnqueue(date, deviceID) ==
    /\ Cardinality(DOMAIN jobs) < MaxJobs
    /\ mu = Unlocked
    /\ LET jobID == NewUUID
           job == [ID |-> jobID, Date |-> date, DeviceID |-> deviceID,
                   Status |-> StatusQueued, QueuedAt |-> now,
                   StartedAt |-> Nil, CompletedAt |-> Nil,
                   ErrorMessage |-> "", Result |-> Nil]
           call == [date |-> date, deviceID |-> deviceID, at |-> now,
                    full |-> Len(pendingQueue) >= capacity]
       IN  IF CanSend(pendingQueue)
           THEN /\ jobs' = (jobID :> job) @@ jobs
                /\ pendingQueue' = Send(pendingQueue, jobID)
                /\ enqLog' = (jobID :> (call @@ [id |-> jobID, err |-> NilErr]))
                                @@ enqLog
           ELSE /\ jobs' = (jobID :> [job EXCEPT !.Status = StatusFailed,
                                                 !.ErrorMessage = "queue is full"])
                                @@ jobs
                /\ pendingQueue' = NotSent(pendingQueue, jobID)
                /\ enqLog' = (jobID :> (call @@ [id |-> EmptyID, err |-> ErrQueueFull]))
                                @@ enqLog
    /\ procCalls' = procCalls @@ (NewUUID :> 0)
    /\ received' = received @@ (NewUUID :> 0)
    /\ mu' = Unlocked
    /\ UNCHANGED <<heap, now, poolVars, shutdownVars>>

\* a caller of the queue invokes Enqueue
Enqueue(date, deviceID) ==
    /\ QueueEnqueue(date, deviceID)
    /\ UNCHANGED callerVars

\* ----------------------------------------------------------------- worker
\* a receive that leaves the job in the channel
ReceiveKeep(q) == q

\* the channel after `job := <-q.pendingQueue` took its first element
Receive(q) == Tail(q)

\* worker: `case job := <-q.pendingQueue`; Go's select picks among the ready
\* cases at random, so this case is not disabled by a done context
WorkerReceive(w) ==
    /\ w \in DOMAIN worker
    /\ worker[w].pc = "select"
    /\ pendingQueue # <<>>
    /\ LET job == Head(pendingQueue)
       IN  /\ worker' = [worker EXCEPT ![w].pc = "processJob", ![w].job = job]
           /\ received' = [received EXCEPT ![job] = @ + 1]
    /\ pendingQueue' = Receive(pendingQueue)
    /\ UNCHANGED <<jobs, heap, mu, enqLog, procCalls, workers, capacity, wg, now,
                   shutdownVars, callerVars>>

\* worker: `case <-q.ctx.Done(): return`, with the deferred q.wg.Done()
WorkerExit(w) ==
    /\ w \in DOMAIN worker
    /\ worker[w].pc = "select"
    /\ cancelled
    /\ worker' = [worker EXCEPT ![w].pc = "exited"]
    /\ wg' = wg - 1
    /\ UNCHANGED <<queueVars, workers, capacity, now, shutdownVars, callerVars>>

\* a processJob that does not record the start
StartStatusSkipped == StatusQueued

\* the status processJob records before it calls the Processor
StartStatus == StatusProcessing

\* a processJob that keeps the lock while the Processor runs
LockHeldOverProcessor(w) == "locked"

\* q.mu after the `q.mu.Unlock()` that precedes the Processor call
LockAfterStart(w) == Unlocked

\* a Processor handed a context of its own
ProcessorCtxBackground == "context.Background()"

\* the context processJob hands to the Processor: `q.processor(q.ctx, job)`
ProcessorCtx == "q.ctx"

\* ctx.Done() is closed: q.ctx is done once q.cancel() was called, and
\* context.Background() never
CtxDone(ctx) == ctx = "q.ctx" /\ cancelled

\* processJob up to the Processor call: note the start time, then under the
\* lock set the status and StartedAt = &now; the Processor is then invoked
\* outside the lock
ProcessStart(w) ==
    /\ w \in DOMAIN worker
    /\ worker[w].pc = "processJob"
    /\ mu = Unlocked
    /\ LET job == worker[w].job
       IN  /\ jobs' = [jobs EXCEPT ![job].Status = StartStatus,
                                   ![job].StartedAt = StoreAddr(job, "StartedAt")]
           /\ heap' = (StoreAddr(job, "StartedAt") :> now) @@ heap
           /\ procCalls' = [procCalls EXCEPT ![job] = @ + 1]
    /\ worker' = [worker EXCEPT ![w].pc = "processor", ![w].startTime = now,
                                ![w].ctx = ProcessorCtx]
    /\ mu' = LockAfterStart(w)
    /\ UNCHANGED <<pendingQueue, enqLog, received, workers, capacity, wg, now,
                   shutdownVars, callerVars>>

\* the Processor returns (result, err): result is nil or a freshly allocated
\* JobResult, err is nil or an error
ProcessorReturn(w, hasResult, err) ==
    /\ w \in DOMAIN worker
    /\ worker[w].pc = "processor"
    /\ LET job == worker[w].job
           result == StoreAddr(job, "Result")
       IN  IF hasResult
           THEN /\ heap' = (result :> [CSVPath |-> "/data/test.csv",
                                       ProcessingTimeMS |-> 0]) @@ heap
                /\ worker' = [worker EXCEPT ![w].pc = "update",
                                            ![w].result = result, ![w].err = err]
           ELSE /\ heap' = heap
                /\ worker' = [worker EXCEPT ![w].pc = "update",
                                            ![w].result = Nil, ![w].err = err]
    /\ UNCHANGED <<jobs, pendingQueue, mu, enqLog, procCalls, received, workers,
                   capacity, wg, now, shutdownVars, callerVars>>

\* heap h without the cell at address a: a result the Processor returned
\* together with an error is dropped by processJob and becomes garbage
Unreachable(h, a) == [x \in DOMAIN h \ {a} |-> h[x]]

\* a processJob that fails every job finishing after the context was cancelled
FinishStatusCancelAware(err) ==
    IF err # NilErr \/ cancelled THEN StatusFailed ELSE StatusCompleted

\* a processJob that never records the outcome
FinishStatusStuck(err) == StatusProcessing

\* the status processJob records for a Processor outcome
FinishStatus(err) == IF err # NilErr THEN StatusFailed ELSE StatusCompleted

\* a completion stamped with a time before the clock's
CompletionTimeEarly == now - 1

\* `completedAt := time.Now()`
CompletionTime == now

\* a worker loop that ends when a job failed
AfterJobStops(err) == IF err # NilErr THEN "exited" ELSE "select"

\* where the worker loop is after processJob returned: `for { select ... }`
\* is back at its select, whatever the Processor returned
AfterJob(err) == "select"

\* processJob after the Processor call, under the lock: CompletedAt, then the
\* failed or the completed branch; the worker returns to its select
ProcessFinish(w) ==
    /\ w \in DOMAIN worker
    /\ worker[w].pc = "update"
    /\ mu = Unlocked
    /\ LET job == worker[w].job
           result == worker[w].result
           err == worker[w].err
           completedAt == StoreAddr(job, "CompletedAt")
           done1 == [jobs EXCEPT ![job].CompletedAt = completedAt,
                                 ![job].Status = FinishStatus(err)]
       IN  IF err # NilErr
           THEN /\ jobs' = [done1 EXCEPT ![job].ErrorMessage = err[1]]
                /\ heap' = (completedAt :> CompletionTime) @@ Unreachable(heap, result)
           ELSE /\ jobs' = [done1 EXCEPT ![job].Result = result]
                /\ heap' = IF result # Nil
                           THEN (completedAt :> CompletionTime) @@
                                [heap EXCEPT ![result].ProcessingTimeMS =
                                                 now - worker[w].startTime]
                           ELSE (completedAt :> CompletionTime) @@ heap
    /\ worker' = [worker EXCEPT ![w] = [IdleWorker EXCEPT !.pc = AfterJob(worker[w].err)]]
    /\ mu' = Unlocked
    /\ UNCHANGED <<pendingQueue, enqLog, procCalls, received, workers, capacity,
                   wg, now, shutdownVars, callerVars>>

\* --------------------------------------------------------------- Shutdown
\* one done channel kept in the Queue and shared by all calls
DoneChanShared(c) == 1

\* the channel `done := make(chan struct{})` of call c: a fresh one per call
DoneChan(c) == c

\* a WaitGroup the workers were never added to
WaitReturnsEarly == TRUE

\* q.wg.Wait() can return
WaitReturns == wg = 0

\* Shutdown up to its select: q.cancel(), make(done), start the goroutine
\* that waits for the workers; time.After starts the timer.  Calls are made
\* one after another.
ShutdownCall(c) ==
    /\ sd[c].pc = "idle"
    /\ c > 1 => sd[c - 1].pc = "returned"
    /\ cancelled' = TRUE
    /\ done' = (DoneChan(c) :> "open") @@ done
    /\ sd' = [sd EXCEPT ![c].pc = "select", ![c].waiter = "wait"]
    /\ UNCHANGED <<queueVars, poolVars, now, panicked, callerVars>>

\* the goroutine of call c: q.wg.Wait() returned, close(done); closing a
\* closed channel panics
WaiterDone(c) ==
    /\ sd[c].waiter = "wait"
    /\ WaitReturns
    /\ panicked' = (panicked \/ done[DoneChan(c)] = "closed")
    /\ done' = [done EXCEPT ![DoneChan(c)] = "closed"]
    /\ sd' = [sd EXCEPT ![c].waiter = "exited"]
    /\ UNCHANGED <<queueVars, poolVars, now, cancelled, callerVars>>

\* the timeout of call c elapses: its time.After channel becomes ready
TimerFire(c) ==
    /\ sd[c].pc = "select"
    /\ ~sd[c].timer
    /\ sd' = [sd EXCEPT ![c].timer = TRUE, ![c].running = (wg > 0)]
    /\ UNCHANGED <<queueVars, poolVars, now, cancelled, done, panicked,
                   callerVars>>

\* the select of Shutdown takes one of its ready cases
ShutdownReturn(c) ==
    /\ sd[c].pc = "select"
    /\ \/ /\ done[DoneChan(c)] = "closed"
          /\ sd' = [sd EXCEPT ![c].pc = "returned", ![c].ret = NilErr]
       \/ /\ sd[c].timer
          /\ sd' = [sd EXCEPT ![c].pc = "returned", ![c].ret = ErrTimeout]
    /\ UNCHANGED <<queueVars, poolVars, now, cancelled, done, panicked,
                   callerVars>>

\* ------------------------------------------------------- GetJob, ListJobs
PtrFields == {"StartedAt", "CompletedAt", "Result"}

\* the cells of h that the queue's own records can point to
StoreCells(h) == [a \in {x \in DOMAIN h : x[1] = "store"} |-> h[a]]

\* a lookup that finds nothing
ExistsNever(jobID) == FALSE

\* `job, exists := q.jobs[jobID]`
Exists(jobID) == jobID \in DOMAIN jobs

\* a lookup that reports no error for an unknown id
NotFoundSilent(jobID) == NilErr

\* fmt.Errorf("job not found: %s", jobID); an error text is the sequence of
\* its parts
NotFound(jobID) == <<"job not found", ": ", jobID>>

\* GetJob: under the read lock, an error for an unknown id; else a copy of the
\* record whose non-nil StartedAt, CompletedAt and Result point to fresh
\* cells holding copies of the values.  (The caller holds one return value
\* at a time: an earlier return and the cells of its copy are dropped.)
GetJob(jobID) ==
    /\ mu = Unlocked
    /\ IF ~Exists(jobID)
       THEN /\ getRet' = [job |-> <<>>, err |-> NotFound(jobID)]
            /\ heap' = StoreCells(heap)
       ELSE LET job == jobs[jobID]
                copied == {f \in PtrFields : job[f] # Nil}
                jobCopy == [job EXCEPT
                    !.StartedAt = IF @ # Nil THEN CopyAddr(jobID, "StartedAt") ELSE Nil,
                    !.CompletedAt = IF @ # Nil THEN CopyAddr(jobID, "CompletedAt") ELSE Nil,
                    !.Result = IF @ # Nil THEN CopyAddr(jobID, "Result") ELSE Nil]
            IN  /\ getRet' = [job |-> <<jobCopy>>, err |-> NilErr]
                /\ heap' = [a \in {CopyAddr(jobID, f) : f \in copied} |->
                                heap[job[a[3]]]] @@ StoreCells(heap)
    /\ listRet' = <<>>
    /\ listCall' = NoListCall
    /\ mu' = Unlocked
    /\ UNCHANGED <<jobs, pendingQueue, enqLog, procCalls, received, now,
                   poolVars, shutdownVars, writes, statsRet, rpcRet>>

\* a ListJobs that ignores its filter
FilteredAll(status) == DOMAIN jobs

\* the status filter of ListJobs
Filtered(status) == {j \in DOMAIN jobs : status = "" \/ jobs[j].Status = status}

\* the orders in which `range q.jobs` can visit the jobs of S
Orders(S) ==
    {f \in [1..Cardinality(S) -> S] :
        \A a, b \in 1..Cardinality(S) : a # b => f[a] # f[b]}

\* ListJobs: under the read lock, `jobCopy := *job` for every matching job in
\* map order (the pointer fields of the copy keep the record's addresses),
\* then the page filtered[start:end]; a slice expression with a negative
\* start or with end below start panics
QueueListJobs(status, limit, offset) ==
    /\ mu = Unlocked
    /\ \E order \in Orders(Filtered(status)) :
          LET filtered == [i \in 1..Cardinality(Filtered(status)) |-> jobs[order[i]]]
              start == offset
              end == IF WrapInt(start + limit) > Len(filtered)
                     THEN Len(filtered) ELSE WrapInt(start + limit)
              call == [status |-> status, limit |-> limit, offset |-> offset]
          IN  IF start > Len(filtered)
              THEN /\ listRet' = <<>>
                   /\ panicked' = panicked
                   /\ listCall' = <<call @@ [panic |-> FALSE]>>
              ELSE IF start < 0 \/ end < start
                   THEN /\ listRet' = listRet
                        /\ panicked' = TRUE
                        /\ listCall' = <<call @@ [panic |-> TRUE]>>
                   ELSE /\ listRet' = SubSeq(filtered, start + 1, end)
                        /\ panicked' = panicked
                        /\ listCall' = <<call @@ [panic |-> FALSE]>>
    /\ getRet' = NoGet
    /\ heap' = StoreCells(heap)
    /\ mu' = Unlocked
    /\ UNCHANGED <<jobs, pendingQueue, enqLog, procCalls, received, now,
                   poolVars, cancelled, sd, done, writes, statsRet>>

\* a caller of the queue invokes ListJobs
ListJobs(status, limit, offset) ==
    /\ QueueListJobs(status, limit, offset)
    /\ UNCHANGED rpcRet

\* a total that counts only the jobs waiting in the channel
TotalPending == Len(pendingQueue)

\* `"total": len(q.jobs)`
Total == Cardinality(DOMAIN jobs)

\* the loop of GetStats over the jobs of S: one increment of the job's status
\* for each of the four statuses of the switch
RECURSIVE CountStatuses(_, _)
CountStatuses(stats, S) ==
    IF S = {} THEN stats
    ELSE LET j == CHOOSE x \in S : TRUE
             status == jobs[j].Status
         IN  CountStatuses(
                 IF status \in {StatusQueued, StatusProcessing,
                                StatusCompleted, StatusFailed}
                 THEN [stats EXCEPT ![status] = @ + 1] ELSE stats,
                 S \ {j})

\* the map GetStats builds
Stats ==
    CountStatuses([total |-> Total, queued |-> 0, processing |-> 0,
                   completed |-> 0, failed |-> 0], DOMAIN jobs)

\* GetStats: under the read lock, the counts of the store as it is
GetStats ==
    /\ mu = Unlocked
    /\ statsRet' = <<Stats>>
    /\ mu' = Unlocked
    /\ UNCHANGED <<jobs, heap, pendingQueue, enqLog, procCalls, received, now,
                   poolVars, shutdownVars, getRet, listRet, listCall, writes,
                   rpcRet>>

\* the Jobs a caller holds: GetJob's return and the elements of ListJobs'
HeldJobs == {getRet.job[i] : i \in DOMAIN getRet.job} \cup
            {listRet[i] : i \in DOMAIN listRet}

\* what a caller writes through a pointer of a returned Job
Tampered(f, v) ==
    IF f = "Result" THEN [v EXCEPT !.CSVPath = "tampered"] ELSE MaxTime + 1

\* a caller writes through the pointer field f of a Job it was returned:
\* *job.StartedAt = t, *job.CompletedAt = t or job.Result.CSVPath = s
CallerMutate(f) ==
    /\ writes < MaxWrites
    /\ writes' = writes + 1
    /\ \E job \in HeldJobs :
          /\ job[f] # Nil
          /\ heap' = [heap EXCEPT ![job[f]] = Tampered(f, @)]
    /\ UNCHANGED <<jobs, pendingQueue, mu, enqLog, procCalls, received, now,
                   poolVars, shutdownVars, getRet, listRet, listCall,
                   statsRet, rpcRet>>

\* a caller overwrites a field of the Job struct GetJob returned
CallerMutateField ==
    /\ getRet.job # <<>>
    /\ getRet' = [getRet EXCEPT !.job[1].Status = "tampered"]
    /\ UNCHANGED <<queueVars, now, poolVars, shutdownVars, listRet, listCall,
                   writes, statsRet, rpcRet>>

\* ---------------------------------------------------------------- handler
\* err.Error() contains the text
Contains(err, text) == \E i \in DOMAIN err : err[i] = text

\* the handler GetJobStatus on what s.queue.GetJob returned, with heap h:
\* fmt.Errorf("job not found: %w", err) and no response for an error; else
\* the response built from the Job, its optional fields left unset (Nil)
\* when the Job's are nil or empty
GetJobStatus(ret, h) ==
    IF ret.err # NilErr
    THEN [resp |-> <<>>, err |-> <<"job not found", ": ">> \o ret.err]
    ELSE LET job == ret.job[1]
         IN  [resp |-> <<[JobId |-> job.ID,
                         Status |-> job.Status,
                         QueuedAt |-> job.QueuedAt,
                         StartedAt |-> IF job.StartedAt # Nil
                                       THEN <<h[job.StartedAt]>> ELSE Nil,
                         CompletedAt |-> IF job.CompletedAt # Nil
                                         THEN <<h[job.CompletedAt]>> ELSE Nil,
                         ErrorMessage |-> job.ErrorMessage,
                         Result |-> IF job.Result # Nil
                                    THEN <<[CsvPath |-> h[job.Result].CSVPath,
                                            Date |-> job.Date,
                                            DeviceId |-> job.DeviceID,
                                            ProcessingTimeMs |->
                                                h[job.Result].ProcessingTimeMS]>>
                                    ELSE Nil]>>,
              err |-> NilErr]

\* a handler that accepts any date
DateMissingIgnored(date) == FALSE

\* `req.Date == ""`
DateMissing(date) == date = ""

\* the handler CalculateDistanceFromHome: an error for a request without a
\* date, before the queue is touched; else s.queue.Enqueue, its error
\* wrapped, or the response with the job id and the literal status "queued"
CalculateDistanceFromHome(date, deviceID) ==
    LET req == [rpc |-> "CalculateDistanceFromHome", Date |-> date,
                DeviceId |-> deviceID]
    IN  IF DateMissing(date)
        THEN /\ rpcRet' = <<[req |-> req, resp |-> Nil,
                             err |-> <<"date is required">>]>>
             /\ UNCHANGED <<queueVars, now, poolVars, shutdownVars, getRet,
                            listRet, listCall, writes, statsRet>>
        ELSE /\ QueueEnqueue(date, deviceID)
             /\ LET jobID == enqLog'[NewUUID].id
                    err == enqLog'[NewUUID].err
                IN  rpcRet' =
                        IF err # NilErr
                        THEN <<[req |-> req, resp |-> Nil,
                                err |-> <<"failed to enqueue job", ": ">> \o err]>>
                        ELSE <<[req |-> req,
                                resp |-> <<[JobId |-> jobID, Status |-> "queued",
                                           QueuedAt |-> now]>>,
                                err |-> NilErr]>>
             /\ UNCHANGED <<getRet, listRet, listCall, writes, statsRet>>

\* a handler that passes any requested page size on
NormalizeLimitNoCap(limit) == IF limit = 0 THEN DefaultLimit ELSE limit

\* the page size the handler ListJobs passes to the queue: 50 for 0, then
\* 500 for anything above 500
NormalizeLimit(limit) ==
    LET defaulted == IF limit = 0 THEN DefaultLimit ELSE limit
    IN  IF defaulted > MaxLimit THEN MaxLimit ELSE defaulted

\* the JobSummary the handler ListJobs builds from a Job, with heap h
JobSummary(job, h) ==
    [JobId |-> job.ID, Status |-> job.Status, Date |-> job.Date,
     DeviceId |-> job.DeviceID, QueuedAt |-> job.QueuedAt,
     CompletedAt |-> IF job.CompletedAt # Nil THEN <<h[job.CompletedAt]>> ELSE Nil]

\* the handler ListJobs: s.queue.ListJobs with the normalized page size and
\* the request's offset, then the response with a summary per returned job;
\* a panic of the queue's ListJobs leaves the call without a response
ServerListJobs(status, limit, offset) ==
    LET req == [rpc |-> "ListJobs", Status |-> status, Limit |-> limit,
                Offset |-> offset]
        normalized == NormalizeLimit(ToInt(limit))
    IN  /\ QueueListJobs(status, normalized, ToInt(offset))
        /\ rpcRet' =
              IF listCall'[1].panic
              THEN <<[req |-> req, resp |-> Nil, err |-> NilErr, panic |-> TRUE]>>
              ELSE <<[req |-> req,
                      resp |-> <<[Limit |-> ToInt32(normalized),
                                 Offset |-> ToInt32(ToInt(offset)),
                                 Jobs |-> [i \in DOMAIN listRet' |->
                                              JobSummary(listRet'[i], heap')],
                                 TotalCount |-> ToInt32(Len(listRet'))]>>,
                      err |-> NilErr, panic |-> FALSE]>>

WorkerStep(w) ==
    \/ WorkerReceive(w)
    \/ WorkerExit(w)
    \/ ProcessStart(w)
    \/ \E hasResult \in ProcessorResults, err \in ProcessorErrors :
           ProcessorReturn(w, hasResult, err)
    \/ ProcessFinish(w)

ShutdownStep(c) ==
    \/ ShutdownCall(c)
    \/ WaiterDone(c)
    \/ TimerFire(c)
    \/ ShutdownReturn(c)

Next ==
    \/ \E date \in Dates, deviceID \in DeviceIDs : Enqueue(date, deviceID)
    \/ \E w \in WorkerIds : WorkerStep(w)
    \/ \E c \in Calls : ShutdownStep(c)

\* the queue, its workers and Shutdown.  The clock stands still (it advances
\* in SpecClock): no step of these operations branches on a timestamp, and
\* the timeout of Shutdown is the step TimerFire
Spec == Init /\ [][Next]_vars

\* the steps the scheduler owes a goroutine that can run: WorkerStep(w) of
\* worker w (a Processor call that has started returns), and those of the
\* goroutine Shutdown started, of its timer and of its select.  Nothing
\* obliges a caller to invoke Enqueue or Shutdown.
ShutdownRuns(c) == WaiterDone(c) \/ TimerFire(c) \/ ShutdownReturn(c)

\* for the liveness of jobs one Shutdown call is explored: a later call finds
\* the context cancelled and touches no job, channel or worker
NextLive ==
    \/ \E date \in Dates, deviceID \in DeviceIDs : Enqueue(date, deviceID)
    \/ \E w \in WorkerIds : WorkerStep(w)
    \/ ShutdownStep(1)

FairSpec ==
    /\ Init /\ [][NextLive]_vars
    /\ \A w \in WorkerIds : WF_vars(WorkerStep(w))
    /\ WF_vars(ShutdownRuns(1))

\* the queue and its workers with callers of GetJob and ListJobs that write
\* to what they were returned; Shutdown is not invoked
NextCaller ==
    \/ \E date \in Dates, deviceID \in DeviceIDs : Enqueue(date, deviceID)
    \/ \E w \in WorkerIds :
          \/ WorkerReceive(w)
          \/ ProcessStart(w)
          \/ \E hasResult \in ProcessorResults, err \in ProcessorErrors :
                 ProcessorReturn(w, hasResult, err)
          \/ ProcessFinish(w)
    \/ \E jobID \in JobIds \cup {EmptyID} : GetJob(jobID)
    \/ \E status \in StatusFilters, limit \in Limits, offset \in Offsets :
          ListJobs(status, limit, offset)
    \/ \E f \in PtrFields : CallerMutate(f)
    \/ CallerMutateField

SpecCaller == Init /\ [][NextCaller]_vars

\* the steps of a worker that is not told to stop
WorkerRuns(w) ==
    \/ WorkerReceive(w)
    \/ ProcessStart(w)
    \/ \E hasResult \in ProcessorResults, err \in ProcessorErrors :
           ProcessorReturn(w, hasResult, err)
    \/ ProcessFinish(w)

\* the queue and its workers with callers of GetJob
NextGet ==
    \/ \E date \in Dates, deviceID \in DeviceIDs : Enqueue(date, deviceID)
    \/ \E w \in WorkerIds : WorkerRuns(w)
    \/ \E jobID \in JobIds \cup {EmptyID} : GetJob(jobID)

SpecGet == Init /\ [][NextGet]_vars

\* a caller holds what ListJobs, GetStats or a handler call returned
Holding == listCall # NoListCall \/ statsRet # NoStats \/ rpcRet # NoRpc

\* the caller lets go of what it was returned
Release ==
    /\ Holding
    /\ listRet' = <<>>
    /\ listCall' = NoListCall
    /\ statsRet' = NoStats
    /\ rpcRet' = NoRpc
    /\ UNCHANGED <<queueVars, now, poolVars, shutdownVars, getRet, writes>>

\* the queue and its workers with callers of ListJobs; a caller looks at what
\* its call returned and lets go of it before the queue moves on
NextList ==
    \/ Release
    \/ \E date \in Dates, deviceID \in DeviceIDs :
          listCall = NoListCall /\ Enqueue(date, deviceID)
    \/ \E w \in WorkerIds : listCall = NoListCall /\ WorkerReceive(w)
    \/ \E w \in WorkerIds : listCall = NoListCall /\ ProcessStart(w)
    \/ \E w \in WorkerIds, hasResult \in ProcessorResults, err \in ProcessorErrors :
          listCall = NoListCall /\ ProcessorReturn(w, hasResult, err)
    \/ \E w \in WorkerIds : listCall = NoListCall /\ ProcessFinish(w)
    \/ \E status \in StatusFilters, limit \in Limits, offset \in Offsets :
          listCall = NoListCall /\ ListJobs(status, limit, offset)

SpecList == Init /\ [][NextList]_vars

\* the queue and its workers while the clock advances
NextClock ==
    \/ \E date \in Dates, deviceID \in DeviceIDs : Enqueue(date, deviceID)
    \/ \E w \in WorkerIds : WorkerRuns(w)
    \/ Tick

SpecClock == Init /\ [][NextClock]_vars

\* the queue and its workers when the channel can hold several jobs
NextDeep ==
    \/ \E date \in Dates, deviceID \in DeviceIDs : Enqueue(date, deviceID)
    \/ \E w \in WorkerIds : WorkerRuns(w)

SpecDeep == InitDeep /\ [][NextDeep]_vars

\* the queue, its workers and Shutdown with callers of GetStats; a caller
\* looks at what its call returned and lets go of it before the queue moves
\* on.  One Shutdown call is explored: a later call finds the context
\* cancelled and touches no job, channel or worker
NextStats ==
    \/ Release
    \/ \E date \in Dates, deviceID \in DeviceIDs :
          ~Holding /\ Enqueue(date, deviceID)
    \/ \E w \in WorkerIds : ~Holding /\ WorkerReceive(w)
    \/ \E w \in WorkerIds : ~Holding /\ WorkerExit(w)
    \/ \E w \in WorkerIds : ~Holding /\ ProcessStart(w)
    \/ \E w \in WorkerIds, hasResult \in ProcessorResults, err \in ProcessorErrors :
          ~Holding /\ ProcessorReturn(w, hasResult, err)
    \/ \E w \in WorkerIds : ~Holding /\ ProcessFinish(w)
    \/ ~Holding /\ ShutdownCall(1)
    \/ ~Holding /\ WaiterDone(1)
    \/ ~Holding /\ TimerFire(1)
    \/ ~Holding /\ ShutdownReturn(1)
    \/ ~Holding /\ GetStats

SpecStats == Init /\ [][NextStats]_vars

\* the queue and its workers behind the gRPC handler: jobs arrive through
\* CalculateDistanceFromHome and are listed through the handler's ListJobs;
\* a caller looks at a response and lets go of it before the queue moves on
NextHandler ==
    \/ Release
    \/ \E date \in ReqDates, deviceID \in DeviceIDs :
          ~Holding /\ CalculateDistanceFromHome(date, deviceID)
    \/ \E w \in WorkerIds : ~Holding /\ WorkerReceive(w)
    \/ \E w \in WorkerIds : ~Holding /\ ProcessStart(w)
    \/ \E w \in WorkerIds, hasResult \in ProcessorResults, err \in ProcessorErrors :
          ~Holding /\ ProcessorReturn(w, hasResult, err)
    \/ \E w \in WorkerIds : ~Holding /\ ProcessFinish(w)
    \/ \E status \in ReqStatuses, limit \in ReqLimits, offset \in ReqOffsets :
          ~Holding /\ ServerListJobs(status, limit, offset)

SpecHandler == Init /\ [][NextHandler]_vars

\* jobs are enqueued at different times and listed while no worker has been
\* scheduled yet; a caller looks at a page and lets go of it before the queue
\* moves on
NextPage ==
    \/ Release
    \/ \E date \in Dates, deviceID \in DeviceIDs :
          ~Holding /\ Enqueue(date, deviceID)
    \/ ~Holding /\ Tick
    \/ \E status \in StatusFilters, limit \in Limits, offset \in Offsets :
          ~Holding /\ ListJobs(status, limit, offset)

SpecPage == Init /\ [][NextPage]_vars

\* ------------------------------------------------------------------ claims
Accepted(j) == j \in DOMAIN enqLog /\ enqLog[j].err = NilErr
Rejected(j) == j \in DOMAIN enqLog /\ enqLog[j].err # NilErr
IsTerminal(j) == j \in DOMAIN jobs /\ jobs[j].Status \in Terminal

\* C1: once a job's status is completed or failed, no step changes it.
TerminalAbsorbing ==
    [][\A j \in DOMAIN jobs :
          jobs[j].Status \in Terminal => jobs'[j].Status = jobs[j].Status]_vars

\* a worker-completed job and a rejected job exist while Shutdown has returned
TerminalAbsorbingWitness ==
    /\ \E j \in DOMAIN jobs : jobs[j].Status = StatusCompleted
    /\ \E j \in DOMAIN jobs : Rejected(j) /\ jobs[j].Status = StatusFailed
    /\ sd[1].pc = "returned"

RECURSIVE SumOver(_, _)
SumOver(f, S) ==
    IF S = {} THEN 0
    ELSE LET x == CHOOSE y \in S : TRUE IN f[x] + SumOver(f, S \ {x})

InChannel(j) == Cardinality({i \in DOMAIN pendingQueue : pendingQueue[i] = j})
Holders(j) == {w \in DOMAIN worker : worker[w].job = j}
AcceptedJobs == {j \in DOMAIN jobs : Accepted(j)}

\* C2: every accepted job is in the channel once or was received by exactly
\* one worker, never both; the Processor is invoked at most once per job, no
\* two workers hold the same job, and when all K accepted jobs are terminal
\* there were exactly K Processor invocations.
ExactlyOnce ==
    /\ \A j \in DOMAIN jobs :
          /\ received[j] <= 1
          /\ procCalls[j] <= 1
          /\ Cardinality(Holders(j)) <= 1
          /\ Accepted(j) => InChannel(j) + received[j] = 1
          /\ Accepted(j) /\ IsTerminal(j) => procCalls[j] = 1 /\ Holders(j) = {}
    /\ (\A j \in AcceptedJobs : IsTerminal(j)) =>
          SumOver(procCalls, DOMAIN jobs) = Cardinality(AcceptedJobs)

\* two workers, and every job of a full run accepted and terminal
ExactlyOnceWitness ==
    /\ workers = 2
    /\ Cardinality(AcceptedJobs) = MaxJobs
    /\ \A j \in AcceptedJobs : IsTerminal(j)
    /\ SumOver(procCalls, DOMAIN jobs) = MaxJobs

\* C3: a job becomes terminal either from status processing with StartedAt
\* set, or at its creation by an Enqueue that found the channel full (and
\* then as failed with the queue-full error).
NoSkipProcessing ==
    [][\A j \in DOMAIN jobs' :
          (jobs'[j].Status \in Terminal /\ ~IsTerminal(j)) =>
             IF j \in DOMAIN jobs
             THEN /\ jobs[j].Status = StatusProcessing
                  /\ jobs[j].StartedAt # Nil
                  /\ jobs'[j].StartedAt # Nil
             ELSE /\ jobs'[j].Status = StatusFailed
                  /\ jobs'[j].StartedAt = Nil
                  /\ enqLog'[j].err = ErrQueueFull
                  /\ Len(pendingQueue) = capacity]_vars

\* a job a worker failed after processing it, and a rejected job
NoSkipProcessingWitness ==
    /\ \E j \in DOMAIN jobs :
          Accepted(j) /\ jobs[j].Status = StatusFailed /\ jobs[j].StartedAt # Nil
    /\ \E j \in DOMAIN jobs :
          Rejected(j) /\ jobs[j].Status = StatusFailed /\ jobs[j].StartedAt = Nil

\* C5: Enqueue is never blocked; it returns an error exactly when the channel
\* held `capacity` jobs at the send, then with the empty id and the
\* record left failed with "queue is full"; otherwise it returns the id.
QueueFullRejection ==
    /\ \A j \in DOMAIN enqLog :
          /\ enqLog[j].err # NilErr <=> enqLog[j].full
          /\ enqLog[j].err # NilErr =>
                /\ enqLog[j].err = ErrQueueFull
                /\ enqLog[j].id = EmptyID
                /\ jobs[j].Status = StatusFailed
                /\ jobs[j].ErrorMessage = "queue is full"
          /\ enqLog[j].err = NilErr => enqLog[j].id = j /\ enqLog[j].id # EmptyID
    /\ Cardinality(DOMAIN jobs) < MaxJobs =>
          ENABLED (\E date \in Dates, deviceID \in DeviceIDs : Enqueue(date, deviceID))

\* an accepted job, and a rejected one after the workers moved on
QueueFullRejectionWitness ==
    /\ \E j \in DOMAIN jobs : Accepted(j)
    /\ \E j \in DOMAIN jobs : Rejected(j) /\ pendingQueue = <<>>

Returned(c) == sd[c].pc = "returned"
AllExited == \A w \in DOMAIN worker : worker[w].pc = "exited"

\* C7 as claimed: Shutdown returns nil only if every worker loop has exited
\* before the timeout elapsed, and returns an error if the timeout elapsed
\* while a worker loop was still running.
ShutdownWaitsAsClaimed ==
    \A c \in Calls : Returned(c) =>
        /\ sd[c].ret = NilErr => AllExited /\ ~(sd[c].timer /\ sd[c].running)
        /\ (sd[c].timer /\ sd[c].running) => sd[c].ret # NilErr

\* C7 (amended): Shutdown returns nil only if every worker loop has exited
\* (wg is zero and its done channel is closed), and returns an error, the
\* timeout error, only if its timeout has elapsed.
ShutdownWaits ==
    \A c \in Calls : Returned(c) =>
        /\ sd[c].ret = NilErr =>
              AllExited /\ wg = 0 /\ done[DoneChan(c)] = "closed"
        /\ sd[c].ret # NilErr => sd[c].ret = ErrTimeout /\ sd[c].timer

\* a first call timed out with a worker still running, a second returned nil
ShutdownWaitsWitness ==
    /\ Returned(1) /\ sd[1].ret = ErrTimeout /\ sd[1].running
    /\ Returned(2) /\ sd[2].ret = NilErr

\* C8: after the context is cancelled no worker receives from the pending
\* channel: the jobs in it stay, in order (Enqueue can still append).
NoReceiveAfterCancel ==
    [][cancelled =>
          /\ Len(pendingQueue') >= Len(pendingQueue)
          /\ SubSeq(pendingQueue', 1, Len(pendingQueue)) = pendingQueue]_vars

\* C9: no step of Shutdown changes a job record or a cell it points to, and
\* a worker finishing a job after the cancellation records the outcome of
\* its own Processor call: completed with that result, or failed with that
\* error's text.
ShutdownLeavesJobs ==
    [][/\ (\E c \in Calls : ShutdownStep(c)) => UNCHANGED <<jobs, heap>>
       /\ \A w \in DOMAIN worker :
             (cancelled /\ worker[w].pc = "update" /\ worker'[w].pc # "update") =>
                LET job == worker[w].job
                IN  IF worker[w].err = NilErr
                    THEN /\ jobs'[job].Status = StatusCompleted
                         /\ jobs'[job].Result = worker[w].result
                         /\ jobs'[job].ErrorMessage = ""
                    ELSE /\ jobs'[job].Status = StatusFailed
                         /\ jobs'[job].ErrorMessage = worker[w].err[1]]_vars

\* Shutdown has returned its timeout error while a worker holds a job that is
\* processing and whose Processor call succeeded
ShutdownLeavesJobsWitness ==
    /\ Returned(1) /\ sd[1].ret = ErrTimeout
    /\ \E w \in DOMAIN worker :
          /\ worker[w].pc = "update"
          /\ worker[w].err = NilErr
          /\ jobs[worker[w].job].Status = StatusProcessing

\* C10 as claimed: a second Shutdown does not panic and returns nil.
SecondShutdownReturnsNil ==
    /\ ~panicked
    /\ \A c \in Calls \ {1} : Returned(c) => sd[c].ret = NilErr

\* C10 (amended): a second Shutdown does not panic: no done channel is closed
\* twice and the context stays cancelled; it returns nil only if every worker
\* loop has exited and otherwise, when its timeout elapses, the timeout
\* error; after a first call that returned nil its goroutine never has to
\* wait for a worker.
ShutdownIdempotent ==
    /\ ~panicked
    /\ \A c \in Calls \ {1} :
          /\ sd[c].pc # "idle" => cancelled /\ DoneChan(c) \in DOMAIN done
          /\ Returned(c) =>
                /\ sd[c].ret = NilErr => AllExited
                /\ sd[c].ret # NilErr => sd[c].ret = ErrTimeout /\ sd[c].timer
          /\ (sd[c].waiter = "wait" /\ Returned(1) /\ sd[1].ret = NilErr) =>
                ENABLED WaiterDone(c)

\* both calls returned, the second with the timeout error, and the goroutines
\* of both calls have closed their channels
ShutdownIdempotentWitness ==
    /\ Returned(1) /\ Returned(2) /\ sd[2].ret = ErrTimeout
    /\ sd[1].waiter = "exited" /\ sd[2].waiter = "exited"

Claimed(j) == \E w \in DOMAIN worker : worker[w].job = j

Deref(p) == IF p = Nil THEN Nil ELSE <<heap[p]>>
StoreView ==
    [j \in DOMAIN jobs |->
        [jobs[j] EXCEPT !.StartedAt = Deref(@), !.CompletedAt = Deref(@),
                        !.Result = Deref(@)]]

\* C6: a caller's write to a Job it was returned, or through one of its
\* pointers, changes nothing the store reports.
CopyIsolation ==
    [][((\E f \in PtrFields : CallerMutate(f)) \/ CallerMutateField) =>
          StoreView' = StoreView]_vars

CompletedHasResult ==
    \A j \in DOMAIN jobs :
        jobs[j].Status = StatusCompleted =>
            /\ jobs[j].Result # Nil
            /\ jobs[j].ErrorMessage = ""
            /\ jobs[j].StartedAt # Nil
            /\ jobs[j].CompletedAt # Nil

\* C13: a failed job has no result and a non-empty errorMessage, which is
\* "queue is full" for a rejected submission.
FailedHasMessage ==
    \A j \in DOMAIN jobs :
        jobs[j].Status = StatusFailed =>
            /\ jobs[j].Result = Nil
            /\ jobs[j].ErrorMessage # ""
            /\ Rejected(j) => jobs[j].ErrorMessage = "queue is full"

Started == {StatusProcessing, StatusCompleted, StatusFailed}

\* C14 as claimed: startedAt is non-nil iff the status is processing,
\* completed or failed.
StartedAtIffStarted ==
    \A j \in DOMAIN jobs : jobs[j].StartedAt # Nil <=> jobs[j].Status \in Started

\* C14 (amended): for a job Enqueue accepted, startedAt is non-nil (and
\* points to a stored time) iff the status is processing, completed or
\* failed; a job Enqueue rejected is failed with a nil startedAt.
StartedAtIffWorkerStarted ==
    \A j \in DOMAIN jobs :
        /\ Accepted(j) =>
              (jobs[j].StartedAt # Nil <=> jobs[j].Status \in Started)
        /\ Rejected(j) => jobs[j].Status = StatusFailed /\ jobs[j].StartedAt = Nil
        /\ jobs[j].StartedAt # Nil => jobs[j].StartedAt \in DOMAIN heap

\* a rejected job next to a job a worker is processing
StartedAtIffWorkerStartedWitness ==
    /\ \E j \in DOMAIN jobs : Rejected(j) /\ jobs[j].StartedAt = Nil
    /\ \E j \in DOMAIN jobs :
          /\ Accepted(j) /\ jobs[j].Status = StatusProcessing
          /\ jobs[j].StartedAt # Nil

\* C15 as claimed: completedAt is non-nil iff the status is completed or
\* failed.
CompletedAtIffTerminal ==
    \A j \in DOMAIN jobs : jobs[j].CompletedAt # Nil <=> jobs[j].Status \in Terminal

\* C15 (amended): for a job Enqueue accepted, completedAt is non-nil (and
\* points to a stored time) iff the status is completed or failed; a job
\* Enqueue rejected is failed with a nil completedAt.
CompletedAtIffWorkerFinished ==
    \A j \in DOMAIN jobs :
        /\ Accepted(j) =>
              (jobs[j].CompletedAt # Nil <=> jobs[j].Status \in Terminal)
        /\ Rejected(j) => jobs[j].Status = StatusFailed /\ jobs[j].CompletedAt = Nil
        /\ jobs[j].CompletedAt # Nil => jobs[j].CompletedAt \in DOMAIN heap

\* a rejected job next to a job a worker has completed and one it has failed
CompletedAtIffWorkerFinishedWitness ==
    /\ \E j \in DOMAIN jobs : Rejected(j) /\ jobs[j].CompletedAt = Nil
    /\ \E j \in DOMAIN jobs :
          /\ Accepted(j) /\ jobs[j].Status \in Terminal
          /\ jobs[j].CompletedAt # Nil

\* C16: errorMessage is non-empty only in a failed job and result is non-nil
\* only in a completed job; queued and processing jobs carry neither, also
\* while a worker holds a result and an error its Processor returned.
TerminalFieldsOnlyWhenTerminal ==
    \A j \in DOMAIN jobs :
        /\ jobs[j].ErrorMessage # "" => jobs[j].Status = StatusFailed
        /\ jobs[j].Result # Nil => jobs[j].Status = StatusCompleted
        /\ jobs[j].Status \in {StatusQueued, StatusProcessing} =>
              jobs[j].ErrorMessage = "" /\ jobs[j].Result = Nil

\* a Processor returned both a result and an error: first the worker holds
\* both while the job is processing, then the job is failed without a result
TerminalFieldsOnlyWhenTerminalWitness ==
    /\ \E w \in DOMAIN worker :
          /\ worker[w].pc = "update"
          /\ worker[w].result # Nil /\ worker[w].err # NilErr
          /\ jobs[worker[w].job].Status = StatusProcessing
    /\ \E j \in DOMAIN jobs :
          /\ Accepted(j) /\ jobs[j].Status = StatusFailed
          /\ jobs[j].ErrorMessage # "" /\ jobs[j].Result = Nil

TimeFields == {"StartedAt", "CompletedAt"}

\* C17: startedAt and completedAt are written at most once: once non-nil
\* neither the pointer nor the time it points to changes, and queuedAt never
\* changes; and completedAt >= startedAt >= queuedAt for every job that has
\* them, the clock being non-decreasing.
TimestampsOnceAndOrdered ==
    /\ [](\A j \in DOMAIN jobs :
            /\ jobs[j].StartedAt # Nil => heap[jobs[j].StartedAt] >= jobs[j].QueuedAt
            /\ jobs[j].CompletedAt # Nil =>
                  /\ jobs[j].StartedAt # Nil
                  /\ heap[jobs[j].CompletedAt] >= heap[jobs[j].StartedAt])
    /\ [][/\ now' >= now
          /\ \A j \in DOMAIN jobs :
                /\ jobs'[j].QueuedAt = jobs[j].QueuedAt
                /\ \A f \in TimeFields :
                      jobs[j][f] # Nil =>
                         /\ jobs'[j][f] = jobs[j][f]
                         /\ heap'[jobs[j][f]] = heap[jobs[j][f]]]_vars

\* a job that started after it was queued, and a job that completed after it
\* started
TimestampsOnceAndOrderedWitness ==
    /\ \E j \in DOMAIN jobs :
          jobs[j].StartedAt # Nil /\ heap[jobs[j].StartedAt] > jobs[j].QueuedAt
    /\ \E j \in DOMAIN jobs :
          /\ jobs[j].CompletedAt # Nil
          /\ heap[jobs[j].CompletedAt] > heap[jobs[j].StartedAt]

\* C18: GetJob on an id that is not in the store (the empty id included)
\* returns an error and a nil Job; the handler's GetJobStatus then returns no
\* response and an error containing "job not found"; the lookup changes
\* nothing in the store.
GetJobUnknownErrors ==
    [][\A jobID \in JobIds \cup {EmptyID} :
          (~Exists(jobID) /\ GetJob(jobID)) =>
             /\ getRet'.err # NilErr
             /\ getRet'.job = <<>>
             /\ LET rpc == GetJobStatus(getRet', heap')
                IN  /\ rpc.resp = <<>>
                    /\ rpc.err # NilErr
                    /\ Contains(rpc.err, "job not found")
             /\ UNCHANGED <<jobs, pendingQueue, worker>>
             /\ StoreCells(heap') = StoreCells(heap)]_vars

\* GetJob("") returned its error while the store holds a job
GetJobUnknownErrorsWitness ==
    /\ jobs # <<>>
    /\ getRet.job = <<>>
    /\ getRet.err = NotFound(EmptyID)
    /\ Contains(GetJobStatus(getRet, heap).err, "job not found")

Min(a, b) == IF a < b THEN a ELSE b
Max(a, b) == IF a > b THEN a ELSE b

\* In SpecList no step of the queue or of a worker separates a ListJobs call
\* from the caller's look at what it returned: while listCall is set, the
\* store is the store of the call.

\* C19: for limit >= 0 and offset >= 0, with M jobs matching the filter at
\* the call, ListJobs returns exactly min(limit, max(0, M - offset)) jobs.
ListJobsPageSize ==
    \A c \in DOMAIN listCall :
        LET call == listCall[c]
        IN  (call.limit >= 0 /\ call.offset >= 0) =>
               /\ ~call.panic
               /\ Len(listRet) =
                     Min(call.limit,
                         Max(0, Cardinality(Filtered(call.status)) - call.offset))

\* C20: every element ListJobs returns is a job of the store as it was at
\* the call, no job twice; with a non-empty filter every element has that
\* status; with the empty filter jobs of every status are eligible: a page
\* from the start that is long enough holds exactly the matching jobs.
ListJobsFilter ==
    \A c \in DOMAIN listCall :
        LET call == listCall[c]
            ret == listRet
            ids == {ret[i].ID : i \in DOMAIN ret}
        IN  ~call.panic =>
               /\ \A i \in DOMAIN ret :
                     /\ ret[i].ID \in DOMAIN jobs
                     /\ ret[i] = jobs[ret[i].ID]
                     /\ call.status # "" => ret[i].Status = call.status
               /\ \A i, k \in DOMAIN ret : i # k => ret[i].ID # ret[k].ID
               /\ (call.offset = 0 /\ call.limit >= Cardinality(Filtered(call.status))) =>
                     ids = Filtered(call.status)
               /\ call.status = "" => Filtered(call.status) = DOMAIN jobs

\* ListJobs returned two jobs of different statuses, one of them completed
ListJobsFilterWitness ==
    /\ listCall # NoListCall
    /\ Len(listRet) = 2
    /\ listRet[1].Status = StatusCompleted
    /\ listRet[2].Status # StatusCompleted
    /\ listRet[1].ID # listRet[2].ID
\* C21: jobs leave the pending channel in the order in which their Enqueue
\* calls succeeded (ids are issued in the order of the calls): the channel
\* holds accepted jobs, oldest first, every one of them younger than all jobs
\* already received, and a worker that receives a job receives the oldest
\* accepted job no worker has received yet.
FifoDelivery ==
    /\ [](\A a, b \in DOMAIN pendingQueue :
            /\ Accepted(pendingQueue[a])
            /\ a < b => pendingQueue[a] < pendingQueue[b])
    /\ [][\A j \in DOMAIN received :
            received'[j] > received[j] =>
                /\ Accepted(j)
                /\ received[j] = 0
                /\ pendingQueue # <<>> /\ j = Head(pendingQueue)
                /\ \A i \in DOMAIN enqLog :
                       Accepted(i) => (i < j <=> received[i] > 0)]_vars

\* with two workers the younger of two jobs, accepted while the older one was
\* still in the channel, is terminal before the older one
FifoDeliveryWitness ==
    /\ Accepted(1) /\ Accepted(2) /\ ~enqLog[1].full
    /\ capacity > 1 /\ workers > 1
    /\ received[1] = 1 /\ received[2] = 1
    /\ IsTerminal(2) /\ ~IsTerminal(1)

\* C22: the Processor runs outside the store lock: whenever a worker is inside
\* a Processor call, q.mu is free, so Enqueue (while the explored number of
\* jobs is not used up), GetJob, ListJobs and GetStats can take their step,
\* and so can every other worker that is about to record the start or the
\* outcome of its job.
ProcessorOutsideLock ==
    \A w \in DOMAIN worker :
        worker[w].pc = "processor" =>
            /\ mu = Unlocked
            /\ Cardinality(DOMAIN jobs) < MaxJobs =>
                   \A date \in Dates, deviceID \in DeviceIDs :
                       ENABLED Enqueue(date, deviceID)
            /\ \A jobID \in JobIds \cup {EmptyID} : ENABLED GetJob(jobID)
            /\ \A status \in StatusFilters, limit \in Limits, offset \in Offsets :
                   ENABLED ListJobs(status, limit, offset)
            /\ ENABLED GetStats
            /\ \A v \in DOMAIN worker \ {w} :
                   /\ worker[v].pc = "processJob" => ENABLED ProcessStart(v)
                   /\ worker[v].pc = "update" => ENABLED ProcessFinish(v)

\* GetStats has returned while a Processor call was in progress (it counted a
\* processing job) and another worker's job, accepted later, is already
\* terminal
ProcessorOutsideLockWitness ==
    /\ statsRet # NoStats /\ statsRet[1].processing = 1
    /\ \E w \in DOMAIN worker :
          /\ worker[w].pc = "processor"
          /\ \E j \in DOMAIN jobs :
                j > worker[w].job /\ Accepted(j) /\ IsTerminal(j)

ShutdownInvoked == \E c \in Calls : sd[c].pc # "idle"

\* C23: a Processor error never stops a worker: when processJob records the
\* outcome of a call that returned an error, the job becomes failed with the
\* error's text and the worker is back at its select; and as long as Shutdown
\* has not been invoked no worker loop has exited.
ProcessorErrorKeepsWorker ==
    /\ [](~ShutdownInvoked =>
            /\ wg = workers
            /\ \A w \in DOMAIN worker : worker[w].pc # "exited")
    /\ [][\A w \in DOMAIN worker :
            (worker[w].pc = "update" /\ worker'[w].pc # "update"
                /\ worker[w].err # NilErr) =>
                /\ jobs'[worker[w].job].Status = StatusFailed
                /\ jobs'[worker[w].job].ErrorMessage = worker[w].err[1]
                /\ worker'[w].pc = "select"]_vars

\* the only worker of a queue failed a job with the Processor's error text
\* and has received the next job, Shutdown not invoked
ProcessorErrorKeepsWorkerWitness ==
    /\ workers = 1 /\ ~ShutdownInvoked
    /\ \E j \in DOMAIN jobs :
          /\ Accepted(j) /\ jobs[j].Status = StatusFailed
          /\ jobs[j].ErrorMessage = "processing failed"
          /\ worker[1].job \notin {EmptyID, j}

\* C24: the context of every Processor call is the queue's: for every call in
\* progress it is done exactly if Shutdown has been invoked, whether the call
\* started before or after, and once done it stays done.
ProcessorContext ==
    /\ [](\A w \in DOMAIN worker :
            worker[w].pc = "processor" =>
                (CtxDone(worker[w].ctx) <=> ShutdownInvoked))
    /\ [][\A w \in DOMAIN worker :
            (worker[w].pc = "processor" /\ worker'[w].pc = "processor"
                /\ CtxDone(worker[w].ctx)) => CtxDone(worker[w].ctx)']_vars

\* a Processor call is in progress with a done context after a Shutdown call
\* has returned
ProcessorContextWitness ==
    /\ Returned(1)
    /\ \E w \in DOMAIN worker :
          worker[w].pc = "processor" /\ CtxDone(worker[w].ctx)

InStatus(status) == {j \in DOMAIN jobs : jobs[j].Status = status}

\* C25: what GetStats returned is one snapshot of the store: total is the
\* number of records Enqueue ever created, accepted or rejected, each of the
\* four counts is the number of records in that status, and the four counts
\* add up to total.
StatsSnapshot ==
    statsRet # NoStats =>
        LET stats == statsRet[1]
        IN  /\ DOMAIN stats = {"total", StatusQueued, StatusProcessing,
                               StatusCompleted, StatusFailed}
            /\ stats.total = Cardinality(DOMAIN enqLog)
            /\ stats.total = Cardinality({j \in DOMAIN enqLog : Accepted(j)})
                               + Cardinality({j \in DOMAIN enqLog : Rejected(j)})
            /\ \A status \in DOMAIN stats \ {"total"} :
                   stats[status] = Cardinality(InStatus(status))
            /\ stats.queued + stats.processing + stats.completed + stats.failed
                   = stats.total

\* GetStats returned the counts of a store with a rejected job and a job
\* being processed
StatsSnapshotWitness ==
    /\ statsRet = <<[total |-> 2, queued |-> 0, processing |-> 1,
                     completed |-> 0, failed |-> 1]>>
    /\ \E j \in DOMAIN jobs : Rejected(j)

Identity(job) == <<job.ID, job.Date, job.DeviceID, job.QueuedAt>>

\* C26: a job's id, date, device id and queuedAt are those of its Enqueue
\* call, in the store and in every Job that GetJob returns for the id,
\* whatever the job's status; no step changes them in an existing record, and
\* every Enqueue call creates a record under an id no record had.
IdentityImmutable ==
    /\ [](\A j \in DOMAIN jobs :
            Identity(jobs[j]) =
                <<j, enqLog[j].date, enqLog[j].deviceID, enqLog[j].at>>)
    /\ [][\A j \in DOMAIN jobs :
            j \in DOMAIN jobs' /\ Identity(jobs'[j]) = Identity(jobs[j])]_vars
    /\ [][\A jobID \in JobIds :
            (Exists(jobID) /\ GetJob(jobID)) =>
                /\ getRet'.err = NilErr
                /\ Identity(getRet'.job[1]) =
                       <<jobID, enqLog[jobID].date, enqLog[jobID].deviceID,
                         enqLog[jobID].at>>]_vars
    /\ [][(\E date \in Dates, deviceID \in DeviceIDs : Enqueue(date, deviceID)) =>
            /\ NewUUID \notin DOMAIN jobs
            /\ DOMAIN jobs' = DOMAIN jobs \cup {NewUUID}
            /\ DOMAIN enqLog' = DOMAIN jobs']_vars

\* GetJob returned the second job, completed, with the identity its Enqueue
\* call gave it
IdentityImmutableWitness ==
    /\ getRet.job # <<>>
    /\ getRet.job[1].Status = StatusCompleted
    /\ Identity(getRet.job[1]) = <<2, "2026-01-24", "test-device", 0>>
    /\ Cardinality(DOMAIN jobs) = 2

\* C27: no record leaves the store: every record is still there after any
\* step, Shutdown's included; GetJob on an id Enqueue returned returns the
\* job and cannot return an error; the total GetStats reports is the size
\* of the store and no step makes it smaller.
RecordsNeverRemoved ==
    /\ [](\A j \in DOMAIN enqLog :
            Accepted(j) =>
                /\ ENABLED (GetJob(enqLog[j].id) /\ getRet'.err = NilErr)
                /\ ~ENABLED (GetJob(enqLog[j].id) /\ getRet'.err # NilErr))
    /\ [](statsRet # NoStats => statsRet[1].total = Cardinality(DOMAIN jobs))
    /\ [][/\ \A j \in DOMAIN jobs : j \in DOMAIN jobs'
          /\ Stats'.total >= Stats.total]_vars

\* after a Shutdown call returned, GetStats reports both records
RecordsNeverRemovedWitness ==
    /\ Returned(1)
    /\ statsRet # NoStats /\ statsRet[1].total = 2
    /\ \E j \in DOMAIN jobs : Accepted(j) /\ IsTerminal(j)

\* C30: a rejected job never reaches a worker: in every state it is not in
\* the channel, no worker has received or holds it, the Processor was never
\* invoked for it, and its record is failed with startedAt, completedAt and
\* result unset; yet GetStats counts it and ListJobs, unfiltered or filtered
\* by failed, returns it on a page that is long enough, whatever the order
\* of the map.
RejectedNeverProcessed ==
    \A j \in DOMAIN enqLog :
        Rejected(j) =>
            /\ InChannel(j) = 0 /\ Holders(j) = {}
            /\ received[j] = 0 /\ procCalls[j] = 0
            /\ jobs[j].Status = StatusFailed
            /\ jobs[j].StartedAt = Nil /\ jobs[j].CompletedAt = Nil
            /\ jobs[j].Result = Nil
            /\ statsRet # NoStats =>
                   /\ statsRet[1].total = Cardinality(DOMAIN enqLog)
                   /\ statsRet[1].failed >=
                          Cardinality({i \in DOMAIN enqLog : Rejected(i)})
            /\ \A status \in {"", StatusFailed} :
                   /\ ENABLED (/\ ListJobs(status, MaxJobs, 0)
                               /\ \E i \in DOMAIN listRet' : listRet'[i].ID = j)
                   /\ ~ENABLED (/\ ListJobs(status, MaxJobs, 0)
                                /\ \A i \in DOMAIN listRet' : listRet'[i].ID # j)

\* a job was rejected, the accepted job before it is terminal, the workers
\* have exited after Shutdown, and GetStats counts the rejected job
RejectedNeverProcessedWitness ==
    /\ Rejected(2) /\ Accepted(1) /\ jobs[1].Status = StatusCompleted
    /\ Returned(1) /\ AllExited
    /\ statsRet = <<[total |-> 2, queued |-> 0, processing |-> 0,
                     completed |-> 1, failed |-> 1]>>

\* C28: CalculateDistanceFromHome on a request without a date returns no
\* response and an error containing "date is required", and Enqueue is not
\* called: store, channel and the log of Enqueue calls are unchanged; on a
\* request with a date, when the channel has room, it returns no error and a
\* response with status "queued" and a non-empty job id, the id of the
\* record Enqueue has just stored and sent.
HandlerRejectsEmptyDate ==
    [][\A date \in ReqDates, deviceID \in DeviceIDs :
          CalculateDistanceFromHome(date, deviceID) =>
              IF date = ""
              THEN /\ rpcRet'[1].resp = Nil
                   /\ Contains(rpcRet'[1].err, "date is required")
                   /\ UNCHANGED <<jobs, heap, pendingQueue, enqLog, procCalls,
                                  received>>
              ELSE CanSend(pendingQueue) =>
                       /\ rpcRet'[1].err = NilErr
                       /\ rpcRet'[1].resp # Nil
                       /\ rpcRet'[1].resp[1].Status = "queued"
                       /\ rpcRet'[1].resp[1].JobId # EmptyID
                       /\ rpcRet'[1].resp[1].JobId \in DOMAIN jobs' \ DOMAIN jobs
                       /\ jobs'[rpcRet'[1].resp[1].JobId].Status = StatusQueued
                       /\ pendingQueue' =
                              Append(pendingQueue, rpcRet'[1].resp[1].JobId)]_vars

\* the handler has refused a request without a date while a job accepted
\* through the handler was being processed
HandlerRejectsEmptyDateWitness ==
    /\ rpcRet # NoRpc
    /\ rpcRet[1].req.rpc = "CalculateDistanceFromHome"
    /\ rpcRet[1].req.Date = "" /\ rpcRet[1].err = <<"date is required">>
    /\ Cardinality(DOMAIN jobs) = 1 /\ Accepted(1)
    /\ jobs[1].Status = StatusProcessing

\* the handler's ListJobs has returned a response
ListedByHandler ==
    /\ rpcRet # NoRpc
    /\ rpcRet[1].req.rpc = "ListJobs"
    /\ ~rpcRet[1].panic

\* the page size the claim gives for a requested limit
ClaimedLimit(limit) ==
    IF limit = 0 THEN 50 ELSE IF limit > 500 THEN 500 ELSE limit

\* C29 as stated: the handler calls the queue with limit 50 for a requested
\* 0, 500 for a requested limit above 500 and the requested limit otherwise;
\* its response reports that limit and the requested offset and holds no
\* more jobs than that limit.
HandlerPageSizeAsClaimed ==
    ListedByHandler =>
        LET req == rpcRet[1].req
            resp == rpcRet[1].resp[1]
        IN  /\ listCall[1].limit = ClaimedLimit(req.Limit)
            /\ resp.Limit = ClaimedLimit(req.Limit)
            /\ resp.Offset = req.Offset
            /\ Len(resp.Jobs) <= ClaimedLimit(req.Limit)

\* C29, amended: as stated, except that a response to a request with a
\* negative limit, which is passed on unchanged, holds no job at all (the
\* queue's ListJobs panics for that limit unless the offset is beyond the
\* matching jobs): the response holds at most max(limit, 0) jobs.
HandlerPageSize ==
    /\ rpcRet # NoRpc /\ rpcRet[1].req.rpc = "ListJobs" =>
           /\ listCall[1].limit = ClaimedLimit(rpcRet[1].req.Limit)
           /\ listCall[1].offset = rpcRet[1].req.Offset
    /\ ListedByHandler =>
           LET req == rpcRet[1].req
               resp == rpcRet[1].resp[1]
           IN  /\ resp.Limit = ClaimedLimit(req.Limit)
               /\ resp.Offset = req.Offset
               /\ Len(resp.Jobs) <= Max(ClaimedLimit(req.Limit), 0)
               /\ resp.TotalCount = Len(resp.Jobs)

\* a request for more than 500 jobs was answered with limit 500 and both
\* completed jobs
HandlerPageSizeWitness ==
    /\ ListedByHandler
    /\ rpcRet[1].req.Limit = 501 /\ rpcRet[1].resp[1].Limit = 500
    /\ rpcRet[1].req.Offset = 0 /\ Len(rpcRet[1].resp[1].Jobs) = 2

\* C31: ListJobs orders the matching jobs by queue time, newest first: the
\* jobs of a returned page are in descending order of QueuedAt; and a call is
\* determined by its arguments and the store: the same call cannot return
\* two different first pages.
ListJobsNewestFirst ==
    /\ \A a, b \in DOMAIN listRet :
          a < b => listRet[a].QueuedAt >= listRet[b].QueuedAt
    /\ \A status \in StatusFilters, i, j \in DOMAIN jobs :
          (/\ ENABLED (/\ ListJobs(status, 1, 0)
                       /\ listRet' # <<>> /\ listRet'[1].ID = i)
           /\ ENABLED (/\ ListJobs(status, 1, 0)
                       /\ listRet' # <<>> /\ listRet'[1].ID = j)) => i = j

\* C32: Shutdown stops the queue accepting jobs: an Enqueue call made after
\* Shutdown was invoked returns no job id, and so once every worker has
\* exited no accepted job is left waiting in the channel.
NoEnqueueAfterShutdown ==
    /\ [][\A j \in DOMAIN enqLog' \ DOMAIN enqLog :
            ShutdownInvoked => enqLog'[j].id = EmptyID]_vars
    /\ [](AllExited => pendingQueue = <<>>)

\* C33 as stated: once Shutdown is invoked every worker loop eventually
\* exits, and a Shutdown call returns nil unless its timeout elapsed while a
\* worker loop was still running.
ShutdownTerminatesPoolAsClaimed ==
    /\ <>[](ShutdownInvoked => AllExited)
    /\ [](Returned(1) /\ ~(sd[1].timer /\ sd[1].running) => sd[1].ret = NilErr)

\* C33, amended: once Shutdown is invoked (and every Processor call in
\* progress returns, which the fairness of the worker steps grants) every
\* worker loop eventually exits and the WaitGroup reaches zero, and the
\* Shutdown call eventually returns; it returns nil if its timeout has not
\* elapsed by the time it returns.
ShutdownTerminatesPool ==
    /\ <>[](ShutdownInvoked => AllExited /\ wg = 0)
    /\ <>[](ShutdownInvoked => Returned(1))
    /\ [](Returned(1) /\ ~sd[1].timer => sd[1].ret = NilErr)

\* Shutdown returned nil before its timeout, all workers exited, after a
\* job was processed to its end
ShutdownTerminatesPoolWitness ==
    /\ Returned(1) /\ sd[1].ret = NilErr /\ ~sd[1].timer
    /\ AllExited /\ workers = 2
    /\ \E j \in DOMAIN jobs : Accepted(j) /\ IsTerminal(j)

InProcessor == {w \in DOMAIN worker : worker[w].pc = "processor"}

\* C34: at most N jobs are processing and at most N Processor calls are in
\* progress, N being the number of workers NewQueue started: every
\* processing job is held by a worker of its own that is in processJob past
\* the start; and the set of workers never changes.
PoolNeverGrows ==
    /\ [](/\ Cardinality(InStatus(StatusProcessing)) <= workers
          /\ Cardinality(InProcessor) <= workers
          /\ DOMAIN worker = 1..workers
          /\ \A j \in InStatus(StatusProcessing) :
                 /\ Cardinality(Holders(j)) = 1
                 /\ \A w \in Holders(j) : worker[w].pc \in {"processor", "update"})
    /\ [][workers' = workers /\ DOMAIN worker' = DOMAIN worker]_vars

\* both workers of a queue are inside the Processor, each with its job
PoolNeverGrowsWitness ==
    /\ workers = 2
    /\ Cardinality(InProcessor) = 2
    /\ Cardinality(InStatus(StatusProcessing)) = 2

\* the workers that have received a job and not yet marked it processing
NotYetStarted(j) == {w \in Holders(j) : worker[w].pc = "processJob"}

\* C35: the channel never holds more jobs than its buffer (100 in the code,
\* `capacity` here), every job in it is queued, and every queued job is
\* either in the channel or with a worker that has received it and not yet
\* marked it processing, so the queued jobs number at most the buffer size
\* plus the number of workers.
BoundedBacklog ==
    /\ Len(pendingQueue) <= capacity
    /\ \A i \in DOMAIN pendingQueue : jobs[pendingQueue[i]].Status = StatusQueued
    /\ \A j \in InStatus(StatusQueued) :
          InChannel(j) + Cardinality(NotYetStarted(j)) = 1
    /\ Cardinality(InStatus(StatusQueued)) <= capacity + workers

\* the bound is met: the channel is full and the only worker has received a
\* job that is still queued
BoundedBacklogWitness ==
    /\ workers = 1
    /\ Len(pendingQueue) = capacity
    /\ worker[1].pc = "processJob"
    /\ Cardinality(InStatus(StatusQueued)) = capacity + workers

\* the accepted jobs older than j
AcceptedBefore(j) == {i \in DOMAIN enqLog : Accepted(i) /\ i < j}

\* C36: with a single worker a job becomes processing only when every job
\* accepted before it is terminal, and becomes terminal only when every job
\* accepted before it is terminal: jobs are processed one after another in
\* the order in which their Enqueue calls succeeded.
SingleWorkerInOrder ==
    /\ [](workers = 1 =>
            \A j \in DOMAIN jobs :
                (Accepted(j) /\ jobs[j].Status # StatusQueued) =>
                    \A i \in AcceptedBefore(j) : IsTerminal(i))
    /\ [][workers = 1 =>
            \A j \in DOMAIN jobs :
                jobs'[j].Status # jobs[j].Status =>
                    /\ \A i \in AcceptedBefore(j) : IsTerminal(i)
                    /\ \A i \in DOMAIN jobs \ {j} : jobs'[i] = jobs[i]]_vars

\* the only worker has finished the first job and is processing the second,
\* which was accepted while the first was still in the channel
SingleWorkerInOrderWitness ==
    /\ workers = 1 /\ capacity > 1
    /\ Accepted(1) /\ Accepted(2) /\ ~enqLog[1].full
    /\ IsTerminal(1) /\ jobs[2].Status = StatusProcessing

\* a Shutdown call has returned nil
ReturnedNil == \E c \in Calls : Returned(c) /\ sd[c].ret = NilErr

\* C37: once a Shutdown call has returned nil no job is processing, no
\* Processor call is in progress, every worker loop has exited, and no later
\* step changes the status, the timestamps, the result or the error message
\* of a job that exists.
QuiescentAfterShutdown ==
    /\ [](ReturnedNil =>
            /\ \A j \in DOMAIN jobs : jobs[j].Status # StatusProcessing
            /\ InProcessor = {}
            /\ AllExited /\ wg = 0)
    /\ [][ReturnedNil =>
            /\ DOMAIN jobs \subseteq DOMAIN jobs'
            /\ \A j \in DOMAIN jobs : StoreView'[j] = StoreView[j]]_vars

\* the first Shutdown call returned nil after a job was processed, and a
\* second call has been made since
QuiescentAfterShutdownWitness ==
    /\ Returned(1) /\ sd[1].ret = NilErr
    /\ sd[2].pc # "idle"
    /\ \E j \in DOMAIN jobs : Accepted(j) /\ IsTerminal(j)
    /\ \E j \in DOMAIN jobs : Accepted(j) /\ jobs[j].Status = StatusQueued

\* C38: every call of the handler's ListJobs returns a response: for no
\* limit and offset of the request, negative ones included, does the queue's
\* ListJobs evaluate a slice with a negative bound or with start above end.
HandlerListJobsNeverPanics ==
    (rpcRet # NoRpc /\ rpcRet[1].req.rpc = "ListJobs") =>
        /\ ~rpcRet[1].panic
        /\ rpcRet[1].resp # Nil
        /\ ~listCall[1].panic

====
